---- MODULE Spec2Model ----
(***************************************************************************)
(* Attendance tracker (src/git.py): the punch route (/attendance/punch),   *)
(* the administrative purge (/admin/delete_data) and the aggregation done  *)
(* by the student and the teacher dashboard, over the Attendance table.    *)
(*                                                                         *)
(* Time is counted in whole seconds since midnight of the first day;       *)
(* datetime.now() is the variable now, advanced by Tick.  A request is an  *)
(* operator from the table and the form to the table it commits and the    *)
(* message it flashes; the message is an output, not part of the state.    *)
(*                                                                         *)
(* Spec serves one request at a time.  RaceSpec serves the punch requests  *)
(* of one (teacher, subject) pair concurrently: a request is split at its  *)
(* database calls, and the requests in flight interleave between them.     *)
(***************************************************************************)
EXTENDS Integers, Sequences, FiniteSets, TLC

VARIABLES
    records,      \* the Attendance table, in primary-key order (row id = index)
    now,          \* the wall clock read by datetime.now()
    ticks,        \* how many times the model advanced the clock
    session_of,   \* history: per row, the punch_in_time of the punch that took
                  \* the new-session branch of the session the row was put into
    inflight      \* the punch requests that are between two of their database
                  \* calls, each with what it has read so far

vars == <<records, now, ticks, session_of, inflight>>

-----------------------------------------------------------------------------
(* Bounds of the model *)

StartTime == 36000       \* the clock at start-up: 10:00:00
MaxTicks == 2            \* the clock advances at most this many times
MaxRecords == 3          \* the table holds at most this many rows
MaxClasses == 4          \* the counts a percentage is computed from go up to this

(* The amounts of time that pass between two requests *)
Steps == {300, 3300}

-----------------------------------------------------------------------------
(* Program constants *)

None == -1               \* a NULL column / a None scalar
ADMIN == 1
TEACHER == 2
STUDENT == 3
DAY == 86400             \* rec.punch_in_time.date()
HOUR == 3600             \* rec.punch_in_time.hour
SESSION_GAP == 3600      \* (now - latest_class_start).total_seconds() < 3600
GRACE == 300             \* ... .total_seconds() > 300, timedelta(minutes=5)
LOW_ATTENDANCE == 75     \* overall_percentage < 75

(* The Subject table: the first two subjects create_db_and_seed inserts     *)
SubjectTable ==
    << [course |-> "B.Tech", branch |-> "CSE", code |-> "SA1CS"],
       [course |-> "B.Tech", branch |-> "CSE", code |-> "SB1CS"] >>

(* The User table: the seeded admin, teacher and student, and the users    *)
(* registered through /register/<role_id>.  A student has a course and a   *)
(* branch, a teacher an assigned subject.                                  *)
Users ==
    << [enrollment_number |-> "ADMIN001",   role |-> ADMIN,
        course |-> "", branch |-> "", subject_id |-> None],
       [enrollment_number |-> "TCH101",     role |-> TEACHER,
        course |-> "", branch |-> "", subject_id |-> 1],
       [enrollment_number |-> "STU2025001", role |-> STUDENT,
        course |-> "B.Tech", branch |-> "CSE", subject_id |-> None],
       [enrollment_number |-> "STU2025002", role |-> STUDENT,
        course |-> "B.Tech", branch |-> "CSE", subject_id |-> None],
       [enrollment_number |-> "TCH102",     role |-> TEACHER,
        course |-> "", branch |-> "", subject_id |-> 2],
       [enrollment_number |-> "STU2025003", role |-> STUDENT,
        course |-> "B.Tech", branch |-> "ECE", subject_id |-> None] >>

Students == {u \in DOMAIN Users : Users[u].role = STUDENT}
Teachers == {u \in DOMAIN Users : Users[u].role = TEACHER}
Subjects == {1, 2}

(* What a punch form can carry *)
EnrollmentNumbers == {"STU2025001", "STU2025002", "TCH101", "NOSUCH"}
Actions == {"punch_in", "punch_out"}

Request(teacher_id, subject_id, enrollment_number, action) ==
    [teacher_id |-> teacher_id, subject_id |-> subject_id,
     enrollment_number |-> enrollment_number, action |-> action]

(* Every punch form *)
AllRequests ==
    {Request(t, s, e, a) : t \in Teachers, s \in Subjects,
                           e \in EnrollmentNumbers, a \in Actions}

(* The punch forms the model submits: every form of teacher 2 for subject   *)
(* 1, and the punch-ins of one student for teacher 5 and subject 2.        *)
Requests ==
    {r \in AllRequests :
        \/ r.teacher_id = 2 /\ r.subject_id = 1
        \/ /\ <<r.teacher_id, r.subject_id>> \in {<<5, 2>>}
           /\ r.enrollment_number = "STU2025001"
           /\ r.action = "punch_in"}

(* What a purge request can carry: session['user_id'] and the phrase *)
CONFIRM_DELETE == "CONFIRM DELETE"
SessionUsers == {None, 1, 2}
ConfirmPhrases == {CONFIRM_DELETE, "confirm delete"}

(* The rows of the Attendance table, and the shape of the state *)
Attendance ==
    [student_id : Students, subject_id : Subjects, teacher_id : Teachers,
     punch_in_time : Nat, punch_out_time : Nat \cup {None},
     status : {"Present", "Late"}]

TypeOK ==
    /\ records \in Seq(Attendance)
    /\ now \in Nat
    /\ ticks \in 0..MaxTicks
    /\ session_of \in Seq(Nat)
    /\ Len(session_of) = Len(records)
    /\ \A p \in inflight : p.action \in Actions /\ p.now <= now

-----------------------------------------------------------------------------
(* Queries *)

SetMax(S) == CHOOSE x \in S : \A y \in S : y <= x

\* mutant: the role filter is forgotten
FindStudent_AnyRole(enrollment_number) ==
    LET found == {u \in DOMAIN Users :
                    Users[u].enrollment_number = enrollment_number}
    IN  IF found = {} THEN None ELSE CHOOSE u \in found : TRUE

\* mutant: the enrollment number is left out of the filter
FindStudent_FirstStudent(enrollment_number) ==
    LET found == {u \in DOMAIN Users : Users[u].role = STUDENT}
    IN  IF found = {} THEN None ELSE CHOOSE u \in found : TRUE

\* User.query.filter_by(enrollment_number=..., role=User.STUDENT).first()
FindStudent(enrollment_number) ==
    LET found == {u \in DOMAIN Users :
                    /\ Users[u].enrollment_number = enrollment_number
                    /\ Users[u].role = STUDENT}
    IN  IF found = {} THEN None ELSE CHOOSE u \in found : TRUE

\* the rows of one (teacher, subject) pair
PairRows(recs, teacher_id, subject_id) ==
    {i \in DOMAIN recs : /\ recs[i].teacher_id = teacher_id
                         /\ recs[i].subject_id = subject_id}

\* mutant: the subject filter is forgotten
LatestClassStart_AnySubject(recs, teacher_id, subject_id) ==
    LET rows == {i \in DOMAIN recs : recs[i].teacher_id = teacher_id}
    IN  IF rows = {} THEN None
        ELSE SetMax({recs[i].punch_in_time : i \in rows})

\* db.func.max(Attendance.punch_in_time) filtered by teacher and subject
LatestClassStart(recs, teacher_id, subject_id) ==
    LET rows == PairRows(recs, teacher_id, subject_id)
    IN  IF rows = {} THEN None
        ELSE SetMax({recs[i].punch_in_time : i \in rows})

\* mutant: a punch exactly one hour later still joins
InActiveSession_Inclusive(t, latest_class_start) ==
    /\ latest_class_start # None
    /\ t - latest_class_start <= SESSION_GAP

\* latest_class_start and (now - latest_class_start).total_seconds() < 3600
InActiveSession(t, latest_class_start) ==
    /\ latest_class_start # None
    /\ t - latest_class_start < SESSION_GAP

\* the duplicate query: rows of the student in the pair at or after
\* latest_class_start
RecentRecord(recs, student_id, teacher_id, subject_id, latest_class_start) ==
    {i \in PairRows(recs, teacher_id, subject_id) :
        /\ recs[i].student_id = student_id
        /\ recs[i].punch_in_time >= latest_class_start}

\* mutant: Late from exactly five minutes on
JoinStatus_LateAtGrace(t, latest_class_start) ==
    IF t - latest_class_start >= GRACE THEN "Late" ELSE "Present"

\* 'Late' if (now - latest_class_start).total_seconds() > 300 else 'Present'
JoinStatus(t, latest_class_start) ==
    IF t - latest_class_start > GRACE THEN "Late" ELSE "Present"

NewRecord(student_id, teacher_id, subject_id, t, status) ==
    [student_id |-> student_id, subject_id |-> subject_id,
     teacher_id |-> teacher_id, punch_in_time |-> t,
     punch_out_time |-> None, status |-> status]

\* mutant: the row is merged into the row the student already has in the pair
Add_Merge(recs, record) ==
    LET same == {i \in DOMAIN recs :
                    /\ recs[i].student_id = record.student_id
                    /\ recs[i].teacher_id = record.teacher_id
                    /\ recs[i].subject_id = record.subject_id}
    IN  IF same = {} THEN Append(recs, record)
        ELSE [i \in DOMAIN recs |-> IF i \in same THEN record ELSE recs[i]]

\* db.session.add(...) followed by db.session.commit(): a new row, with the
\* next primary key
Add(recs, record) == Append(recs, record)

\* mutant: the five-minute tolerance of the window is dropped
RecordsToFinalize_NoTolerance(recs, teacher_id, subject_id, latest_class_start) ==
    {i \in DOMAIN recs :
        /\ recs[i].teacher_id = teacher_id
        /\ recs[i].subject_id = subject_id
        /\ recs[i].punch_in_time >= latest_class_start
        /\ recs[i].punch_out_time = None}

\* mutant: rows already punched out are selected again
RecordsToFinalize_Restamp(recs, teacher_id, subject_id, latest_class_start) ==
    {i \in DOMAIN recs :
        /\ recs[i].teacher_id = teacher_id
        /\ recs[i].subject_id = subject_id
        /\ recs[i].punch_in_time >= latest_class_start - GRACE}

\* mutant: every open row of the pair is selected, whatever its punch_in_time
RecordsToFinalize_AllOpen(recs, teacher_id, subject_id, latest_class_start) ==
    {i \in PairRows(recs, teacher_id, subject_id) :
        recs[i].punch_out_time = None}

\* the rows punch_out selects
RecordsToFinalize(recs, teacher_id, subject_id, latest_class_start) ==
    {i \in PairRows(recs, teacher_id, subject_id) :
        /\ recs[i].punch_in_time >= latest_class_start - GRACE
        /\ recs[i].punch_out_time = None}

\* mutant: finalization also rewrites the status
Finalize_ResetStatus(recs, selected, t) ==
    [i \in DOMAIN recs |->
        IF i \in selected
        THEN [recs[i] EXCEPT !.punch_out_time = t, !.status = "Present"]
        ELSE recs[i]]

\* for record in records_to_finalize: record.punch_out_time = now
Finalize(recs, selected, t) ==
    [i \in DOMAIN recs |->
        IF i \in selected THEN [recs[i] EXCEPT !.punch_out_time = t]
        ELSE recs[i]]

\* history: the session the pair's latest row belongs to
CurrentSession(recs, sess, teacher_id, subject_id) ==
    LET rows == PairRows(recs, teacher_id, subject_id)
    IN  IF rows = {} THEN None ELSE sess[SetMax(rows)]

-----------------------------------------------------------------------------
(* Aggregation: the student dashboard *)

\* Attendance.query.filter_by(student_id=user.id).all()
StudentRows(recs, user) == {i \in DOMAIN recs : recs[i].student_id = user}

\* if rec.status == 'Present': ... ['attended'] += 1
Attended(recs, rows) == Cardinality({i \in rows : recs[i].status = "Present"})

\* ... ['total'] += 1, for every row of the loop
Total(recs, rows) == Cardinality(rows)

\* mutant: an empty total gives 0, as in the teacher dashboard
Percentage_ZeroWhenEmpty(attended, total) ==
    IF total > 0 THEN [num |-> attended * 100, den |-> total]
    ELSE [num |-> 0, den |-> 1]

\* (attended / total) * 100 if total > 0 else 100; the quotient is kept exact,
\* as the fraction num / den
Percentage(attended, total) ==
    IF total > 0 THEN [num |-> attended * 100, den |-> total]
    ELSE [num |-> 100, den |-> 1]

\* mutant: the threshold itself is flagged too
PctLess_OrEqual(p, n) == p.num <= n * p.den

\* a percentage compared with a whole number
PctEq(p, n) == p.num = n * p.den
PctLess(p, n) == p.num < n * p.den

\* GET /dashboard/student of a student: what the page is rendered from
student_dashboard(recs, user) ==
    LET rows == StudentRows(recs, user)
        InSubject(sub) == {i \in rows : recs[i].subject_id = sub}
        total_attended == Attended(recs, rows)
        total_classes == Total(recs, rows)
        overall_percentage == Percentage(total_attended, total_classes)
    IN  [subject_attendance |->
             [sub \in {recs[i].subject_id : i \in rows} |->
                 [attended |-> Attended(recs, InSubject(sub)),
                  total |-> Total(recs, InSubject(sub)),
                  percentage |-> Percentage(Attended(recs, InSubject(sub)),
                                            Total(recs, InSubject(sub)))]],
         attendance_summary |->
             [overall_percentage |-> overall_percentage,
              attended_classes |-> total_attended,
              total_classes |-> total_classes],
         low_attendance |-> PctLess(overall_percentage, LOW_ATTENDANCE)]

-----------------------------------------------------------------------------
(* Aggregation: the teacher dashboard *)

\* session_key = (rec.punch_in_time.date(), rec.punch_in_time.hour)
\* mutant: the hour is left out of the key
SessionKey_DateOnly(t) == <<t \div DAY, 0>>

SessionKey(t) == <<t \div DAY, (t % DAY) \div HOUR>>

\* mutant: the percentage is taken over the sessions alone
TeacherPercentage_PerSession(total_present, total_classes, total_students) ==
    IF total_classes > 0
    THEN [num |-> total_present * 100, den |-> total_classes]
    ELSE [num |-> 0, den |-> 1]

\* (total_present / (total_classes * total_students)) * 100 if
\* total_classes * total_students > 0 else 0, kept exact
TeacherPercentage(total_present, total_classes, total_students) ==
    IF total_classes * total_students > 0
    THEN [num |-> total_present * 100, den |-> total_classes * total_students]
    ELSE [num |-> 0, den |-> 1]

\* GET /dashboard/teacher of a teacher with a subject: the summary of the page
teacher_dashboard(recs, user) ==
    LET subject == SubjectTable[Users[user].subject_id]
        subject_students ==
            {u \in Students : /\ Users[u].course = subject.course
                              /\ Users[u].branch = subject.branch}
        total_students == Cardinality(subject_students)
        all_attendance == PairRows(recs, user, Users[user].subject_id)
        unique_class_sessions ==
            {SessionKey(recs[i].punch_in_time) : i \in all_attendance}
        total_classes == Cardinality(unique_class_sessions)
        total_present ==
            Cardinality({i \in all_attendance : recs[i].status = "Present"})
    IN  [total_students |-> total_students,
         total_classes |-> total_classes,
         total_present |-> total_present,
         total_present_percentage |->
             TeacherPercentage(total_present, total_classes, total_students)]

-----------------------------------------------------------------------------
(* The report export *)

\* the orders in which ORDER BY punch_in_time DESC can return the rows: the
\* order of rows with equal times is left to the database
RECURSIVE QueryOrders(_, _)
QueryOrders(recs, rows) ==
    IF rows = {} THEN {<< >>}
    ELSE LET first == {i \in rows : \A j \in rows :
                          recs[j].punch_in_time <= recs[i].punch_in_time}
         IN  UNION {{<<i>> \o rest : rest \in QueryOrders(recs, rows \ {i})} :
                    i \in first}

\* one data row of the CSV file (the student's name is left out); strftime
\* gives the day, the time of day as text, and 'N/A' for an open record
ReportRow(recs, i) ==
    [Date |-> recs[i].punch_in_time \div DAY,
     SubjectCode |-> SubjectTable[recs[i].subject_id].code,
     EnrollmentNumber |-> Users[recs[i].student_id].enrollment_number,
     PunchInTime |-> ToString(recs[i].punch_in_time % DAY),
     PunchOutTime |-> IF recs[i].punch_out_time = None THEN "N/A"
                      ELSE ToString(recs[i].punch_out_time % DAY),
     Status |-> recs[i].status]

\* mutant: only the records that are punched out are exported
download_report_FinalizedOnly(recs, user, subject_id) ==
    IF user = None \/ Users[user].role # TEACHER
                   \/ Users[user].subject_id # subject_id
    THEN {}
    ELSE LET rows == {i \in DOMAIN recs : /\ recs[i].subject_id = subject_id
                                          /\ recs[i].punch_out_time # None}
         IN  {[k \in 1..Len(order) |-> ReportRow(recs, order[k])] :
                 order \in QueryOrders(recs, rows)}

\* GET /download_report/<subject_id>: the data rows of the files it can serve
\* (none when access is denied)
download_report(recs, user, subject_id) ==
    IF user = None \/ Users[user].role # TEACHER
                   \/ Users[user].subject_id # subject_id
    THEN {}
    ELSE LET rows == {i \in DOMAIN recs : recs[i].subject_id = subject_id}
         IN  {[k \in 1..Len(order) |-> ReportRow(recs, order[k])] :
                 order \in QueryOrders(recs, rows)}

-----------------------------------------------------------------------------
(* Operations *)

Init ==
    /\ records = << >>
    /\ now = StartTime
    /\ ticks = 0
    /\ session_of = << >>
    /\ inflight = {}

\* time passes between two requests
Tick ==
    /\ ticks < MaxTicks
    /\ ticks' = ticks + 1
    /\ \E d \in Steps : now' = now + d
    /\ UNCHANGED <<records, session_of, inflight>>

Flash(kind, count) == [kind |-> kind, count |-> count]

Outcome(recs, sess, kind, count) ==
    [records |-> recs, session_of |-> sess, flashed |-> Flash(kind, count)]

\* POST /attendance/punch at time t on the table recs: the table it commits
\* and the message it flashes to the user (sess is the history kept along
\* with the rows)
punch(recs, sess, t, teacher_id, subject_id, enrollment_number, action) ==
    LET student == FindStudent(enrollment_number)
        latest_class_start == LatestClassStart(recs, teacher_id, subject_id)
    IN
    IF student = None
    THEN Outcome(recs, sess, "StudentNotFound", 0)
    ELSE IF action = "punch_in"
    THEN IF InActiveSession(t, latest_class_start)
         THEN IF RecentRecord(recs, student, teacher_id, subject_id,
                              latest_class_start) # {}
              THEN Outcome(recs, sess, "AlreadyPunched", 0)
              ELSE Outcome(
                     Add(recs, NewRecord(student, teacher_id, subject_id, t,
                                         JoinStatus(t, latest_class_start))),
                     Append(sess, CurrentSession(recs, sess, teacher_id, subject_id)),
                     "PunchIn", 0)
         ELSE Outcome(
                Add(recs, NewRecord(student, teacher_id, subject_id, t, "Present")),
                Append(sess, t),
                "NewSession", 0)
    ELSE IF action = "punch_out"
    THEN IF latest_class_start = None
         THEN Outcome(recs, sess, "NoActiveSession", 0)
         ELSE LET records_to_finalize ==
                     RecordsToFinalize(recs, teacher_id, subject_id,
                                       latest_class_start)
              IN  Outcome(Finalize(recs, records_to_finalize, t), sess,
                          "SessionEnded", Cardinality(records_to_finalize))
    ELSE Outcome(recs, sess, "none", 0)

\* mutant: any logged-in user may purge
admin_delete_data_AnyUser(recs, sess, user, confirm) ==
    IF user = None
    THEN Outcome(recs, sess, "AccessDenied", 0)
    ELSE IF confirm = CONFIRM_DELETE
    THEN Outcome(<< >>, << >>, "Deleted", 0)
    ELSE Outcome(recs, sess, "WrongPhrase", 0)

\* POST /admin/delete_data
admin_delete_data(recs, sess, user, confirm) ==
    IF user = None \/ Users[user].role # ADMIN
    THEN Outcome(recs, sess, "AccessDenied", 0)
    ELSE IF confirm = CONFIRM_DELETE
    THEN Outcome(<< >>, << >>, "Deleted", 0)
    ELSE Outcome(recs, sess, "WrongPhrase", 0)

Commit(out) ==
    /\ Len(out.records) <= MaxRecords
    /\ records' = out.records
    /\ session_of' = out.session_of
    /\ UNCHANGED <<now, ticks, inflight>>

Punch ==
    \E r \in Requests :
        Commit(punch(records, session_of, now, r.teacher_id, r.subject_id,
                     r.enrollment_number, r.action))

Purge ==
    \E user \in SessionUsers, confirm \in ConfirmPhrases :
        Commit(admin_delete_data(records, session_of, user, confirm))

Next == Tick \/ Punch \/ Purge

Spec == Init /\ [][Next]_vars

-----------------------------------------------------------------------------
(* Concurrent requests: app.run serves every request in a thread of its    *)
(* own, with a database session of its own; nothing in punch takes a lock. *)

\* the punch forms served concurrently: the punch-ins of two students and a
\* punch_out, for teacher 2 and subject 1
RaceRequests ==
    {Request(2, 1, "STU2025001", "punch_in"),
     Request(2, 1, "STU2025002", "punch_in"),
     Request(2, 1, "STU2025001", "punch_out")}

\* lines 883-896 of a request that goes on: the form, the clock, the student
\* and latest_class_start, read from the table as it is at that moment
Read(recs, t, r) ==
    [student |-> FindStudent(r.enrollment_number),
     teacher_id |-> r.teacher_id, subject_id |-> r.subject_id,
     action |-> r.action, now |-> t,
     latest_class_start |-> LatestClassStart(recs, r.teacher_id, r.subject_id),
     selected |-> FALSE, records_to_finalize |-> {}]

\* mutant: the handler runs under a lock, latest_class_start is read again
\* when the request writes
punch_in_write_Serialized(recs, sess, p) ==
    LET latest_class_start == LatestClassStart(recs, p.teacher_id, p.subject_id)
    IN
    IF InActiveSession(p.now, latest_class_start)
    THEN IF RecentRecord(recs, p.student, p.teacher_id, p.subject_id,
                         latest_class_start) # {}
         THEN Outcome(recs, sess, "AlreadyPunched", 0)
         ELSE Outcome(
                Add(recs, NewRecord(p.student, p.teacher_id, p.subject_id, p.now,
                                    JoinStatus(p.now, latest_class_start))),
                Append(sess, CurrentSession(recs, sess, p.teacher_id, p.subject_id)),
                "PunchIn", 0)
    ELSE Outcome(
           Add(recs, NewRecord(p.student, p.teacher_id, p.subject_id, p.now,
                               "Present")),
           Append(sess, p.now),
           "NewSession", 0)

\* lines 898-936 of a punch_in in flight: the branch is taken on the
\* latest_class_start it has read, the duplicate query and the insert run on
\* the table as it is now
punch_in_write(recs, sess, p) ==
    IF InActiveSession(p.now, p.latest_class_start)
    THEN IF RecentRecord(recs, p.student, p.teacher_id, p.subject_id,
                         p.latest_class_start) # {}
         THEN Outcome(recs, sess, "AlreadyPunched", 0)
         ELSE Outcome(
                Add(recs, NewRecord(p.student, p.teacher_id, p.subject_id, p.now,
                                    JoinStatus(p.now, p.latest_class_start))),
                Append(sess, CurrentSession(recs, sess, p.teacher_id, p.subject_id)),
                "PunchIn", 0)
    ELSE Outcome(
           Add(recs, NewRecord(p.student, p.teacher_id, p.subject_id, p.now,
                               "Present")),
           Append(sess, p.now),
           "NewSession", 0)

\* mutant: every row is committed on its own, so that a failure keeps the
\* rows written before it
Persist_RowByRow(recs, selected, t, ok) ==
    IF ok \/ selected = {} THEN Finalize(recs, selected, t)
    ELSE Finalize(recs, {CHOOSE i \in selected : \A j \in selected : i <= j}, t)

\* lines 952-956: the loop stamps the rows in the request's own session and
\* the one db.session.commit() writes them in one transaction: all of them,
\* or none when the commit raises (ok = FALSE)
Persist(recs, selected, t, ok) ==
    IF ok THEN Finalize(recs, selected, t) ELSE recs

\* a request arrives and runs up to its read of latest_class_start; a
\* punch_out that reads None returns there.  A form is not submitted again
\* while its previous submission is being served.
Begin ==
    /\ \E r \in RaceRequests :
          LET p == Read(records, now, r)
          IN  /\ ~(p.action = "punch_out" /\ p.latest_class_start = None)
              /\ \A q \in inflight :
                    q.student # p.student \/ q.action # p.action
              /\ inflight' = inflight \cup {p}
    /\ UNCHANGED <<records, now, ticks, session_of>>

\* a punch_out in flight runs its query of records_to_finalize
Select ==
    /\ \E p \in inflight :
          /\ p.action = "punch_out"
          /\ ~p.selected
          /\ inflight' = (inflight \ {p}) \cup
                {[p EXCEPT !.selected = TRUE,
                           !.records_to_finalize =
                               RecordsToFinalize(records, p.teacher_id,
                                                 p.subject_id,
                                                 p.latest_class_start)]}
    /\ UNCHANGED <<records, now, ticks, session_of>>

\* a punch_in in flight runs to its end: it commits, or the commit raises
EndPunchIn ==
    \E p \in inflight, ok \in BOOLEAN :
        LET out == IF ok THEN punch_in_write(records, session_of, p)
                   ELSE Outcome(records, session_of, "Failed", 0)
        IN  /\ p.action = "punch_in"
            /\ Len(out.records) <= MaxRecords
            /\ records' = out.records
            /\ session_of' = out.session_of
            /\ inflight' = inflight \ {p}
            /\ UNCHANGED <<now, ticks>>

\* a punch_out in flight runs to its end: it commits, or the commit raises
EndPunchOut ==
    \E p \in inflight, ok \in BOOLEAN :
        /\ p.action = "punch_out"
        /\ p.selected
        /\ records' = Persist(records, p.records_to_finalize, p.now, ok)
        /\ inflight' = inflight \ {p}
        /\ UNCHANGED <<now, ticks, session_of>>

\* the requests of a race arrive within minutes of each other
RaceTick == Tick /\ now' <= now + 300

RaceNext == RaceTick \/ Begin \/ Select \/ EndPunchIn \/ EndPunchOut

RaceSpec == Init /\ [][RaceNext]_vars

-----------------------------------------------------------------------------
(* Properties *)

\* what the punch form r would commit and flash in the current state
Result(r) ==
    punch(records, session_of, now, r.teacher_id, r.subject_id,
          r.enrollment_number, r.action)

\* the punch forms of each button
PunchInRequests == {r \in AllRequests : r.action = "punch_in"}
PunchOutRequests == {r \in AllRequests : r.action = "punch_out"}

SamePair(a, b) == a.teacher_id = b.teacher_id /\ a.subject_id = b.subject_id

\* the row took the active-session branch: an earlier row of its pair is in
\* the same session
Joined(i) ==
    \E j \in 1..(i - 1) : /\ SamePair(records[j], records[i])
                          /\ session_of[j] = session_of[i]

\* C1: a student never holds two open records (punch_out_time = null) in the
\* same session of a (teacher, subject) pair.
C1_NoTwoOpenRecordsInSession ==
    \A i, j \in DOMAIN records :
        ( /\ i # j
          /\ records[i].student_id = records[j].student_id
          /\ SamePair(records[i], records[j])
          /\ session_of[i] = session_of[j]
          /\ records[i].punch_out_time = None )
        => records[j].punch_out_time # None

\* C2: a record that joined an existing session is Present when it was created
\* at most 5 minutes after the session's first punch-in, and Late when more
\* than 5 minutes and less than 1 hour after it.
C2_StatusBySessionFirstPunch ==
    \A i \in DOMAIN records :
        Joined(i) =>
            LET elapsed == records[i].punch_in_time - session_of[i]
            IN  /\ elapsed <= GRACE => records[i].status = "Present"
                /\ (elapsed > GRACE /\ elapsed < SESSION_GAP)
                       => records[i].status = "Late"

\* C3: no record that joined an existing session has a punch_in_time at or
\* beyond 1 hour after that session's first punch-in.
C3_NoJoinBeyondOneHour ==
    \A i \in DOMAIN records :
        Joined(i) => records[i].punch_in_time - session_of[i] < SESSION_GAP

C6_PunchOutWithoutRecords ==
    \A r \in PunchOutRequests :
        ( /\ FindStudent(r.enrollment_number) # None
          /\ ~ \E i \in DOMAIN records : SamePair(records[i], r) )
        => LET out == Result(r)
           IN  /\ out.flashed.kind = "NoActiveSession"
               /\ out.records = records

\* another pair holds an open record, teacher 2 and subject 1 hold none, and
\* the punch_out of teacher 2 for subject 1 is answered NoActiveSession
C6_Witness ==
    /\ records # << >>
    /\ \A i \in DOMAIN records :
          /\ ~(records[i].teacher_id = 2 /\ records[i].subject_id = 1)
          /\ records[i].punch_out_time = None
    /\ Result(Request(2, 1, "STU2025001", "punch_out")).flashed.kind
          = "NoActiveSession"

\* C7: a punch_out_time that is set is never changed by a later request.
C7_PunchOutTimeSetOnce ==
    [][ \A i \in DOMAIN records :
          (i \in DOMAIN records' /\ records[i].punch_out_time # None)
          => records'[i].punch_out_time = records[i].punch_out_time ]_vars

\* a second punch_out ran over a record of its window that an earlier
\* punch_out had stamped, and stamped another one
C7_Witness ==
    \E i, j \in DOMAIN records :
          /\ SamePair(records[i], records[j])
          /\ records[i].punch_out_time # None
          /\ records[i].punch_out_time < now
          /\ records[i].punch_in_time
                >= LatestClassStart(records, records[j].teacher_id,
                                    records[j].subject_id) - 300
          /\ records[j].punch_out_time = now

\* C8: no operation changes the student_id, subject_id, teacher_id,
\* punch_in_time or status of a record that stays in the table.
C8_RecordFieldsImmutable ==
    [][ \A i \in DOMAIN records :
          i \in DOMAIN records' =>
            /\ records'[i].student_id = records[i].student_id
            /\ records'[i].subject_id = records[i].subject_id
            /\ records'[i].teacher_id = records[i].teacher_id
            /\ records'[i].punch_in_time = records[i].punch_in_time
            /\ records'[i].status = records[i].status ]_vars

\* a punch_out has stamped a Late record, which is still Late
C8_Witness ==
    \E i \in DOMAIN records :
        /\ records[i].status = "Late"
        /\ records[i].punch_out_time = now

\* the Present or Late rows of a student, in a subject and overall
AttendedRows(user) ==
    {i \in StudentRows(records, user) : records[i].status \in {"Present", "Late"}}

\* C9: in the student summary a Late record counts as attended, per subject
\* and overall, as a Present record does.
C9_LateCountsAsAttended ==
    \A user \in Students :
        LET page == student_dashboard(records, user)
        IN  /\ page.attendance_summary.attended_classes
                  = Cardinality(AttendedRows(user))
            /\ \A sub \in DOMAIN page.subject_attendance :
                  page.subject_attendance[sub].attended
                      = Cardinality({i \in AttendedRows(user) :
                                        records[i].subject_id = sub})

\* C10: in the student summary, per subject and overall, 0 <= attended <=
\* total; the percentage is 100 when total = 0 and when attended = total, 0
\* when attended = 0 < total, and always between 0 and 100.
C10_PercentageCases ==
    \A user \in Students :
        LET page == student_dashboard(records, user)
            Right(attended, total, percentage) ==
                /\ 0 <= attended /\ attended <= total
                /\ total = 0 => PctEq(percentage, 100)
                /\ attended = total => PctEq(percentage, 100)
                /\ (attended = 0 /\ total > 0) => PctEq(percentage, 0)
                /\ ~PctLess(percentage, 0)
                /\ percentage.num <= 100 * percentage.den
        IN  /\ Right(page.attendance_summary.attended_classes,
                     page.attendance_summary.total_classes,
                     page.attendance_summary.overall_percentage)
            /\ \A sub \in DOMAIN page.subject_attendance :
                  Right(page.subject_attendance[sub].attended,
                        page.subject_attendance[sub].total,
                        page.subject_attendance[sub].percentage)

\* one student is at 100 with records, one at 0 with records, one has none
C10_Witness ==
    \E a, b, c \in Students :
        LET Page(u) == student_dashboard(records, u).attendance_summary
        IN  /\ Page(a).total_classes > 0
            /\ Page(a).attended_classes = Page(a).total_classes
            /\ Page(b).total_classes > 0
            /\ Page(b).attended_classes = 0
            /\ Page(c).total_classes = 0

\* the sum of f over the set S of its arguments
RECURSIVE Sum(_, _)
Sum(f, S) ==
    IF S = {} THEN 0
    ELSE LET x == CHOOSE y \in S : TRUE IN f[x] + Sum(f, S \ {x})

\* C11: the student's overall percentage is the sum of attended over the
\* subjects divided by the sum of total over the subjects, 100 when that sum is
\* 0; low_attendance is true exactly when total > 0 and 100 * attended <
\* 75 * total, so that no record means no flag and exactly 75 % is not flagged.
C11_OverallPercentageAndFlag ==
    /\ \A user \in Students :
          LET page == student_dashboard(records, user)
              subs == DOMAIN page.subject_attendance
              attended == Sum([sub \in subs |-> page.subject_attendance[sub].attended],
                              subs)
              total == Sum([sub \in subs |-> page.subject_attendance[sub].total],
                           subs)
              overall == page.attendance_summary.overall_percentage
          IN  /\ page.attendance_summary.attended_classes = attended
              /\ page.attendance_summary.total_classes = total
              /\ IF total = 0 THEN PctEq(overall, 100)
                 ELSE overall.num * total = 100 * attended * overall.den
              /\ page.low_attendance
                    <=> (total > 0 /\ 100 * attended < 75 * total)
    /\ \A total \in 0..MaxClasses : \A attended \in 0..total :
          LET overall == Percentage(attended, total)
          IN  /\ PctLess(overall, LOW_ATTENDANCE)
                    <=> (total > 0 /\ 100 * attended < 75 * total)
              /\ total = 0 => ~PctLess(overall, LOW_ATTENDANCE)
              /\ 4 * attended = 3 * total => ~PctLess(overall, LOW_ATTENDANCE)

\* one student has rows in two subjects and is flagged, one has rows and is
\* not flagged, one has no row and is not flagged
C11_Witness ==
    \E a, b, c \in Students :
        LET Page(u) == student_dashboard(records, u)
        IN  /\ Cardinality(DOMAIN Page(a).subject_attendance) = 2
            /\ Page(a).low_attendance
            /\ Page(b).attendance_summary.total_classes > 0
            /\ ~Page(b).low_attendance
            /\ Page(c).attendance_summary.total_classes = 0
            /\ ~Page(c).low_attendance

\* C12: a successful punch_in adds exactly one record and modifies no existing
\* record; a punch_in rejected as AlreadyPunched leaves the table identical.
C12_PunchInAddsExactlyOne ==
    \A r \in PunchInRequests :
        LET out == Result(r)
        IN  /\ out.flashed.kind \in {"PunchIn", "NewSession"} =>
                  /\ Len(out.records) = Len(records) + 1
                  /\ \A i \in DOMAIN records : out.records[i] = records[i]
            /\ out.flashed.kind = "AlreadyPunched" => out.records = records

\* the table holds a closed and an open record of teacher 2 and subject 1; a
\* punch_in of the student of the open record is rejected, one of another
\* student is accepted
C12_Witness ==
    /\ \E i, j \in DOMAIN records :
          /\ SamePair(records[i], Request(2, 1, "", ""))
          /\ SamePair(records[j], Request(2, 1, "", ""))
          /\ records[i].punch_out_time # None
          /\ records[j].punch_out_time = None
    /\ \E a, b \in PunchInRequests :
          /\ SamePair(a, Request(2, 1, "", ""))
          /\ SamePair(b, Request(2, 1, "", ""))
          /\ Result(a).flashed.kind = "AlreadyPunched"
          /\ Result(b).flashed.kind = "PunchIn"

\* the enrollment numbers that identify no student: those of the users of
\* another role, and one that no user has
NotStudentNumbers ==
    {Users[u].enrollment_number : u \in DOMAIN Users \ Students} \cup {"NOSUCH"}

\* C13: a punch whose enrollment number does not identify a user with the
\* student role is reported as StudentNotFound and writes nothing.
C13_StudentNotFound ==
    \A t \in Teachers, s \in Subjects, e \in NotStudentNumbers, a \in Actions :
        LET out == punch(records, session_of, now, t, s, e, a)
        IN  /\ out.flashed.kind = "StudentNotFound"
            /\ out.records = records

\* the table holds an open record of teacher 2 and subject 1, and the punch_in
\* and the punch_out carrying the teacher's own number are both StudentNotFound
C13_Witness ==
    /\ \E i \in DOMAIN records :
          /\ SamePair(records[i], Request(2, 1, "", ""))
          /\ records[i].punch_out_time = None
    /\ \A a \in Actions :
          Result(Request(2, 1, "TCH101", a)).flashed.kind = "StudentNotFound"

\* the rows of the active session of the pair of r: the rows of the pair
\* with punch_in_time at or after the first punch-in of the session its latest
\* row belongs to
ActiveSessionRows(r) ==
    {i \in DOMAIN records :
        /\ SamePair(records[i], r)
        /\ records[i].punch_in_time
              >= CurrentSession(records, session_of, r.teacher_id, r.subject_id)}

\* C15: after a successful punch_out no record of the active session of the
\* pair (its records with punch_in_time at or after the session's first
\* punch-in) is still open, also when a late entrant punched in more than 5
\* minutes after the earlier punches of the session.
C15_PunchOutClosesSession ==
    \A r \in PunchOutRequests :
        LET out == Result(r)
        IN  out.flashed.kind = "SessionEnded" =>
                \A i \in ActiveSessionRows(r) :
                    out.records[i].punch_out_time # None

\* C16: a punch_out that has nothing to finalize, the pair holding records of
\* which none is open in the window, reports NoActiveSession and mutates
\* nothing.
C16_NothingToFinalize ==
    \A r \in PunchOutRequests :
        ( /\ FindStudent(r.enrollment_number) # None
          /\ \E i \in DOMAIN records : SamePair(records[i], r)
          /\ RecordsToFinalize(records, r.teacher_id, r.subject_id,
                               LatestClassStart(records, r.teacher_id,
                                                r.subject_id)) = {} )
        => LET out == Result(r)
           IN  /\ out.flashed.kind = "NoActiveSession"
               /\ out.records = records

\* C17: punch_in and punch_out delete no record; the purge removes every
\* record when an admin issues it with the confirmation phrase, and leaves
\* the table unchanged when a non-admin issues it or the phrase is wrong.
C17_OnlyPurgeDeletes ==
    /\ \A r \in AllRequests :
          LET out == Result(r)
          IN  \A i \in DOMAIN records :
                  /\ i \in DOMAIN out.records
                  /\ out.records[i].student_id = records[i].student_id
                  /\ out.records[i].punch_in_time = records[i].punch_in_time
    /\ \A user \in DOMAIN Users \cup {None}, confirm \in ConfirmPhrases :
          LET out == admin_delete_data(records, session_of, user, confirm)
              admin == user # None /\ Users[user].role = ADMIN
          IN  IF admin /\ confirm = "CONFIRM DELETE"
              THEN out.records = << >>
              ELSE out.records = records

\* the table holds an open and a closed record; the purge of the admin with
\* the phrase empties it, the purge of the admin with another phrase and the
\* purge of a teacher with the phrase do not
C17_Witness ==
    /\ \E i, j \in DOMAIN records :
          /\ records[i].punch_out_time = None
          /\ records[j].punch_out_time # None
    /\ admin_delete_data(records, session_of, 1, CONFIRM_DELETE).records = << >>
    /\ admin_delete_data(records, session_of, 1, "confirm delete").records
          = records
    /\ admin_delete_data(records, session_of, 2, CONFIRM_DELETE).records
          = records

\* the rows of the teacher's own pair, and whether each of its punches came at
\* least 1 hour after the previous one
OwnRows(teacher) == PairRows(records, teacher, Users[teacher].subject_id)

HourlyPunches(teacher) ==
    \A i, j \in OwnRows(teacher) :
        i < j => records[j].punch_in_time - records[i].punch_in_time >= 3600

ScenarioTable ==
    LET a == punch(<< >>, << >>, 36000, 2, 1, "STU2025001", "punch_in")
        b == punch(a.records, a.session_of, 36180, 2, 1, "STU2025002", "punch_in")
        c == punch(b.records, b.session_of, 37200, 2, 1, "STU2025001", "punch_out")
    IN  c.records

\* C19: the teacher summary reports distinct_sessions = the number of distinct
\* (date, hour) pairs of punch_in_time over the records of the teacher's pair
\* and total_present_percentage = total_present_records / (distinct_sessions *
\* enrolled_student_count) * 100, 0 when the denominator is 0; after A 10:00,
\* B 10:03, punch_out 10:20 it reports 1 session and 2 present.
C19_TeacherSummary ==
    /\ \A teacher \in Teachers :
          LET page == teacher_dashboard(records, teacher)
              rows == {i \in DOMAIN records :
                          /\ records[i].teacher_id = teacher
                          /\ records[i].subject_id = Users[teacher].subject_id}
              keys == {<<records[i].punch_in_time \div 86400,
                         (records[i].punch_in_time % 86400) \div 3600>> : i \in rows}
              present == {i \in rows : records[i].status = "Present"}
              enrolled ==
                  {u \in Students :
                      /\ Users[u].course
                            = SubjectTable[Users[teacher].subject_id].course
                      /\ Users[u].branch
                            = SubjectTable[Users[teacher].subject_id].branch}
              denominator == Cardinality(keys) * Cardinality(enrolled)
              percentage == page.total_present_percentage
          IN  /\ page.total_classes = Cardinality(keys)
              /\ page.total_present = Cardinality(present)
              /\ page.total_students = Cardinality(enrolled)
              /\ IF denominator = 0 THEN PctEq(percentage, 0)
                 ELSE percentage.num * denominator
                         = 100 * Cardinality(present) * percentage.den
    /\ \A present \in 0..MaxClasses, sessions \in 0..MaxClasses,
          enrolled \in 0..MaxClasses :
          LET percentage == TeacherPercentage(present, sessions, enrolled)
          IN  IF sessions * enrolled = 0 THEN PctEq(percentage, 0)
              ELSE percentage.num * sessions * enrolled
                      = 100 * present * percentage.den
    /\ LET page == teacher_dashboard(ScenarioTable, 2)
       IN  /\ Len(ScenarioTable) = 2
           /\ \A i \in DOMAIN ScenarioTable :
                 ScenarioTable[i].punch_out_time = 37200
           /\ page.total_classes = 1
           /\ page.total_present = 2

\* teacher 2 has held two sessions, in different hours, with a Present and a
\* Late record in one of them, all punched out; teacher 5 has no record
C19_Witness ==
    /\ teacher_dashboard(records, 2).total_classes = 2
    /\ teacher_dashboard(records, 2).total_present = 2
    /\ Cardinality(OwnRows(2)) = 3
    /\ \A i \in OwnRows(2) : records[i].punch_out_time # None
    /\ teacher_dashboard(records, 5).total_classes = 0
    /\ PctEq(teacher_dashboard(records, 5).total_present_percentage, 0)

\* C14: finalization is all-or-nothing.  Between any two states that another
\* request can observe, either no punch_out_time has changed, or one
\* punch_out has ended and every record it had selected carries its time,
\* every other record being as it was; a punch_out whose commit fails
\* leaves none of its records stamped.
C14_FinalizationAllOrNothing ==
    [][ \/ \A i \in DOMAIN records :
              records'[i].punch_out_time = records[i].punch_out_time
        \/ \E p \in inflight :
              /\ p.action = "punch_out"
              /\ p.selected
              /\ p \notin inflight'
              /\ \A i \in DOMAIN records :
                    IF i \in p.records_to_finalize
                    THEN records'[i] = [records[i] EXCEPT !.punch_out_time = p.now]
                    ELSE records'[i] = records[i] ]_vars

\* two records were stamped by one punch_out while another request was in
\* flight, which had arrived before the punch_out ended
C14_Witness ==
    \E i, j \in DOMAIN records :
        /\ i # j
        /\ records[i].punch_out_time # None
        /\ records[i].punch_out_time = records[j].punch_out_time
        /\ \E p \in inflight : p.now <= records[i].punch_out_time

\* C20: a punch_in is two steps, the read of latest_class_start and the
\* insert with its commit.  The second step takes the branch the first step
\* read: a punch_in that read no active session adds a Present record that
\* anchors a session of its own, whatever was committed in between.  Served
\* alone, the two steps are the handler.
C20_ConcurrentPunchInsBothStartSessions ==
    /\ [](\A r \in RaceRequests :
             r.action = "punch_in" =>
                 punch_in_write(records, session_of, Read(records, now, r))
                     = Result(r))
    /\ [][ \A p \in inflight :
              ( /\ p.action = "punch_in"
                /\ p \notin inflight'
                /\ records' # records
                /\ ~InActiveSession(p.now, p.latest_class_start) )
              => /\ records' = Append(records,
                                      NewRecord(p.student, p.teacher_id,
                                                p.subject_id, p.now, "Present"))
                 /\ session_of' = Append(session_of, p.now) ]_vars

\* two competing session anchors: two Present records of one pair, of two
\* students, less than 1 hour apart, each the first record of its own session
C20_Witness ==
    \E i, j \in DOMAIN records :
        /\ i < j
        /\ SamePair(records[i], records[j])
        /\ records[i].student_id # records[j].student_id
        /\ records[j].punch_in_time - records[i].punch_in_time < 3600
        /\ records[i].status = "Present"
        /\ records[j].status = "Present"
        /\ session_of[i] = records[i].punch_in_time
        /\ session_of[j] = records[j].punch_in_time
        /\ session_of[i] # session_of[j]

\* the records of a subject, and those of them that are punched out
SubjectRows(subject_id) ==
    {i \in DOMAIN records : records[i].subject_id = subject_id}

FinalizedRows(subject_id) ==
    {i \in SubjectRows(subject_id) : records[i].punch_out_time # None}

\* the row of a report is the row of record i
IsRowOf(row, i) ==
    /\ row.Date = records[i].punch_in_time \div 86400
    /\ row.SubjectCode = SubjectTable[records[i].subject_id].code
    /\ row.EnrollmentNumber = Users[records[i].student_id].enrollment_number
    /\ row.PunchInTime = ToString(records[i].punch_in_time % 86400)
    /\ row.PunchOutTime = IF records[i].punch_out_time = None THEN "N/A"
                          ELSE ToString(records[i].punch_out_time % 86400)
    /\ row.Status = records[i].status

\* the report has one row per record of rows, in descending order of
\* punch_in_time
OneRowPerRecord(report, rows) ==
    /\ Len(report) = Cardinality(rows)
    /\ \A i \in rows : \E k \in DOMAIN report : IsRowOf(report[k], i)
    /\ \A k, l \in DOMAIN report :
          k < l => \E i, j \in rows :
                      /\ i # j
                      /\ IsRowOf(report[k], i)
                      /\ IsRowOf(report[l], j)
                      /\ records[i].punch_in_time >= records[j].punch_in_time

\* C21 as stated: the report of a subject has exactly one row per finalized
\* record of the subject and no row for an open record, in descending order
\* of punch_in_time.
C21_ReportFinalizedOnly ==
    \A teacher \in Teachers :
        LET subject_id == Users[teacher].subject_id
            reports == download_report(records, teacher, subject_id)
        IN  /\ reports # {}
            /\ \A report \in reports :
                  /\ OneRowPerRecord(report, FinalizedRows(subject_id))
                  /\ \A k \in DOMAIN report : report[k].PunchOutTime # "N/A"

\* C21, amended: the report of a subject has exactly one row per record of the
\* subject, finalized or open, in descending order of punch_in_time; the row
\* of an open record has N/A as its punch-out time.
C21_ReportEveryRecord ==
    \A teacher \in Teachers :
        LET subject_id == Users[teacher].subject_id
            reports == download_report(records, teacher, subject_id)
        IN  /\ reports # {}
            /\ \A report \in reports :
                  OneRowPerRecord(report, SubjectRows(subject_id))

\* subject 1 has an open and a finalized record and two records with the same
\* punch_in_time, so that its report can come in two orders
C21_Witness ==
    /\ Cardinality(download_report(records, 2, 1)) = 2
    /\ SubjectRows(1) \ FinalizedRows(1) # {}
    /\ FinalizedRows(1) # {}

\* C22: the student summary counts only finalized records: an open record
\* contributes neither to attended nor to total, per subject and overall, so
\* that a punch_in alone changes no percentage of the student.
C22_SummaryCountsFinalizedOnly ==
    \A user \in Students :
        LET page == student_dashboard(records, user)
            finalized == {i \in DOMAIN records :
                             /\ records[i].student_id = user
                             /\ records[i].punch_out_time # None}
            present == {i \in finalized : records[i].status = "Present"}
        IN  /\ page.attendance_summary.total_classes = Cardinality(finalized)
            /\ page.attendance_summary.attended_classes = Cardinality(present)
            /\ \A sub \in DOMAIN page.subject_attendance :
                  /\ page.subject_attendance[sub].total
                        = Cardinality({i \in finalized :
                                          records[i].subject_id = sub})
                  /\ page.subject_attendance[sub].attended
                        = Cardinality({i \in present :
                                          records[i].subject_id = sub})

\* the open rows of the pair inside the window of a punch_out: punch_in_time
\* at or after the pair's latest punch-in minus five minutes
OpenWindow(teacher_id, subject_id) ==
    {i \in DOMAIN records :
        /\ records[i].teacher_id = teacher_id
        /\ records[i].subject_id = subject_id
        /\ records[i].punch_out_time = None
        /\ \A j \in DOMAIN records :
              (records[j].teacher_id = teacher_id /\ records[j].subject_id = subject_id)
              => records[i].punch_in_time >= records[j].punch_in_time - 300}

\* what a punch_out of the pair at now does to the table when it finalizes
Finalized(teacher_id, subject_id) ==
    [i \in DOMAIN records |->
        IF i \in OpenWindow(teacher_id, subject_id)
        THEN [records[i] EXCEPT !.punch_out_time = now]
        ELSE records[i]]

\* C23 (as stated): the outcome of punch_out does not depend on the
\* enrollment number: whenever the pair has open records in the window,
\* punch_out finalizes them whatever number accompanies the request, a number
\* that matches no student included.
C23_PunchOutIgnoresEnrollmentNumber ==
    \A t \in Teachers, s \in Subjects :
        OpenWindow(t, s) # {} =>
            \A e \in EnrollmentNumbers :
                LET out == punch(records, session_of, now, t, s, e, "punch_out")
                IN  /\ out.flashed.kind = "SessionEnded"
                    /\ out.records = Finalized(t, s)

\* C23 (amended): the outcome of punch_out depends on (teacher, subject, now),
\* the stored records and on whether the enrollment number identifies a
\* student: with the number of any student the open records in the window are
\* finalized, the same for every student; with any other number the request is
\* answered StudentNotFound and no record is finalized.
C23_PunchOutNeedsSomeStudent ==
    \A t \in Teachers, s \in Subjects :
        OpenWindow(t, s) # {} =>
            \A e \in EnrollmentNumbers :
                LET out == punch(records, session_of, now, t, s, e, "punch_out")
                IN  IF e \in {Users[u].enrollment_number : u \in Students}
                    THEN /\ out.flashed =
                               Flash("SessionEnded", Cardinality(OpenWindow(t, s)))
                         /\ out.records = Finalized(t, s)
                    ELSE /\ out.flashed.kind = "StudentNotFound"
                         /\ out.records = records

\* teacher 2 and subject 1 hold an open record in the window that belongs to
\* student 3: the punch_out carrying the number of another student stamps it,
\* the punch_out carrying a number of no student leaves it open
C23_Witness ==
    /\ \E i \in OpenWindow(2, 1) : records[i].student_id = 3
    /\ \A i \in OpenWindow(2, 1) :
          /\ Result(Request(2, 1, "STU2025002", "punch_out")).records[i].punch_out_time = now
          /\ Result(Request(2, 1, "NOSUCH", "punch_out")).records[i].punch_out_time = None

\* the latest punch-out of the pair, None when no row of the pair is finalized
LastPunchOut(teacher_id, subject_id) ==
    LET outs == {records[i].punch_out_time :
                    i \in {j \in PairRows(records, teacher_id, subject_id) :
                              records[j].punch_out_time # None}}
    IN  IF outs = {} THEN None ELSE SetMax(outs)

\* C24: a punch_in starts a new session only if the last punch-out of its
\* pair was over one hour ago: less than one hour after the latest punch_out
\* it never takes the new-session branch, more than one hour after it always
\* does.
C24_NewSessionByLastPunchOut ==
    \A r \in PunchInRequests :
        LET last == LastPunchOut(r.teacher_id, r.subject_id)
            kind == Result(r).flashed.kind
        IN  (FindStudent(r.enrollment_number) # None /\ last # None) =>
                /\ now - last < 3600 => kind # "NewSession"
                /\ now - last > 3600 => kind = "NewSession"

\* C25: a punch_in that takes the active-session branch and records the
\* student into the existing session comes within 30 minutes of
\* latest_class_start.
C25_JoinWithinThirtyMinutes ==
    \A r \in PunchInRequests :
        Result(r).flashed.kind = "PunchIn" =>
            now - LatestClassStart(records, r.teacher_id, r.subject_id) <= 30 * 60

\* row i of recs is open and lies before the window of its pair: a row of the
\* pair was punched in more than five minutes after it
Stale(recs, i) ==
    /\ recs[i].punch_out_time = None
    /\ \E j \in DOMAIN recs :
          /\ SamePair(recs[j], recs[i])
          /\ recs[i].punch_in_time < recs[j].punch_in_time - 300

C27_TeacherPercentageAtMost100 ==
    \A teacher \in Teachers :
        LET page == teacher_dashboard(records, teacher)
        IN  /\ page.total_present_percentage.num
                  <= 100 * page.total_present_percentage.den
            /\ page.total_classes * page.total_students > 0 =>
                  page.total_present <= page.total_classes * page.total_students

\* the punch-ins of the teacher's pair that took the new-session branch
NewSessionPunches(teacher) == {i \in OwnRows(teacher) : ~Joined(i)}

\* the (date, hour) pairs of a set of punch-in times
DateHours(times) ==
    {<<t \div 86400, (t % 86400) \div 3600>> : t \in times}

\* no two new-session punch-ins of the pair fall in the same (date, hour)
DistinctStarts(teacher) ==
    \A i, j \in NewSessionPunches(teacher) :
        DateHours({records[i].punch_in_time}) = DateHours({records[j].punch_in_time})
        => i = j

\* every record of the pair has the (date, hour) of the punch-in that started
\* its session
NoStraddle(teacher) ==
    \A i \in OwnRows(teacher) :
        DateHours({records[i].punch_in_time}) = DateHours({session_of[i]})

\* C28 (as stated): the distinct-session count of the teacher summary equals
\* the number of punch-ins of the pair that took the new-session branch, also
\* for sessions whose punches straddle an hour boundary.
C28_SessionCountIsNewSessionCount ==
    \A teacher \in Teachers :
        teacher_dashboard(records, teacher).total_classes
            = Cardinality(NewSessionPunches(teacher))

\* C28 (amended): when no two new-session punch-ins of the pair fall in the
\* same (date, hour), the distinct-session count is at least the number of
\* punch-ins that took the new-session branch, and it equals that number when
\* every record has the (date, hour) of the punch-in that started its session;
\* the new-session punch-ins of requests served one after the other always
\* fall in different (date, hour)s.
C28_SessionCountApproximates ==
    \A teacher \in Teachers :
        LET total_classes == teacher_dashboard(records, teacher).total_classes
            started == Cardinality(NewSessionPunches(teacher))
        IN  /\ DistinctStarts(teacher)
            /\ total_classes >= started
            /\ NoStraddle(teacher) => total_classes = started
            /\ total_classes
                  = Cardinality(DateHours({records[i].punch_in_time :
                                              i \in OwnRows(teacher)}))

\* the one session of teacher 2 straddles an hour boundary: its first punch-in
\* came before the full hour and a student joined after it, and two (date,
\* hour) pairs are counted for one punch-in that took the new-session branch
C28_Witness ==
    /\ ~NoStraddle(2)
    /\ Cardinality(NewSessionPunches(2)) = 1
    /\ Cardinality(OwnRows(2)) >= 2
    /\ teacher_dashboard(records, 2).total_classes = 2

====
